---- MODULE Spec2Model ----
(***************************************************************************)
(* Direct-messaging subsystem: the chat service over its three storage     *)
(* collections, the chat controller and its socket rooms, and the client   *)
(* hook useDirectMessage.                                                   *)
(***************************************************************************)
EXTENDS Integers, Sequences, FiniteSets, TLC

(***************************************************************************)
(* Bounds of the model: the chats and messages the direct calls of the     *)
(* service store, and the inputs (gestures of the hook's user, requests    *)
(* and events from elsewhere) of a run of the whole subsystem.             *)
(***************************************************************************)
MaxChats == 1
MaxMessages == 2
MaxInputs == 2

(***************************************************************************)
(* Input domains.                                                          *)
(***************************************************************************)
Usernames == {"A", "B", "Z"}
UserDB == {"A", "B"}
Callers == {"c1", "c2"}
ChatIds == 1..(MaxChats + 1)
ParticipantLists == {<<"A">>, <<"A", "Z">>}
QueryLists == {<<"A", "B">>}
MessageInputs == {[msg |-> "hello", msgFrom |-> "A"]}
MessageLists == {<<>>, <<[msg |-> "hello", msgFrom |-> "A"]>>}

(***************************************************************************)
(* The user whose page runs the hook, the users it may open a chat with,   *)
(* and what the other user sends to the HTTP interface.                    *)
(***************************************************************************)
User == "B"
ChatTargets == {"A", "Z"}
PostedParticipantLists == {<<"A", "B">>, <<"A", "A">>}
PostedMessages == {[msg |-> "hello", msgFrom |-> "A"]}
UnknownTypes == {"deleted"}
SentTexts == {"hi"}

VARIABLES chatDB, messageDB, calls, returned, rooms, outbox, inbox, emitted, handled,
          hook, ops, spent

vars == <<chatDB, messageDB, calls, returned, rooms, outbox, inbox, emitted, handled, hook, ops,
          spent>>

(***************************************************************************)
(* Pure helpers.                                                           *)
(***************************************************************************)
Range(s) == {s[k] : k \in DOMAIN s}

IsPrefix(s, t) == Len(s) <= Len(t) /\ \A k \in 1..Len(s) : s[k] = t[k]

SelectAllChats(db, p, k) ==
    [j \in 1..Len(db) |-> [id |-> j, participants |-> db[j].participants,
                           messages |-> db[j].messages]]

RECURSIVE SelectChats(_, _, _)
SelectChats(db, p, k) == IF k > Len(db) THEN <<>>
                         ELSE IF Range(p) \subseteq Range(db[k].participants)
                              THEN <<[id |-> k, participants |-> db[k].participants,
                                      messages |-> db[k].messages]>> \o SelectChats(db, p, k + 1)
                              ELSE SelectChats(db, p, k + 1)

(***************************************************************************)
(* Storage: the User, Message and Chat collections.  A document id is its  *)
(* position in the collection.                                             *)
(***************************************************************************)
UserFindById(u) == u \in UserDB

ChatExists(c) == c \in 1..Len(chatDB)

ChatDoc(c) == [kind |-> "chat", id |-> c, participants |-> chatDB[c].participants,
               messages |-> chatDB[c].messages]

MessageDoc(k) == [kind |-> "message", id |-> k, msg |-> messageDB[k].msg,
                  msgFrom |-> messageDB[k].msgFrom]

PushFront(seq, x) == <<x>> \o seq

Push(seq, x) == Append(seq, x)

AddToSetAlways(seq, x) == Append(seq, x)

AddToSet(seq, x) == IF x \in Range(seq) THEN seq ELSE Append(seq, x)

(***************************************************************************)
(* Tagged results of the service: a value or an error message.             *)
(***************************************************************************)
NoVal == [kind |-> "none"]
Ok(v) == [error |-> "", val |-> v]
Err(e) == [error |-> e, val |-> NoVal]
IsError(res) == res.error # ""

(***************************************************************************)
(* The enriched form of a chat: its message ids replaced by the messages.  *)
(***************************************************************************)
PopulateDocument(c) ==
    IF ~ChatExists(c) THEN Err("Failed to fetch and populate a chat")
    ELSE Ok([kind |-> "chat", id |-> c, participants |-> chatDB[c].participants,
             messages |-> [k \in 1..Len(chatDB[c].messages)
                              |-> MessageDoc(chatDB[c].messages[k])]])

(***************************************************************************)
(* A call of a service function: its arguments, its local variables and    *)
(* the storage call it awaits (pc).  A call made by a route of the         *)
(* controller carries the route, whether the hook sent the request, and    *)
(* the route's local variables.  calls holds the calls in flight; returned *)
(* is the direct call that has just returned, with its result.             *)
(***************************************************************************)
NoCall == [op |-> "idle", pc |-> "done", chatId |-> 0, userId |-> "", messageId |-> 0,
           participants |-> <<>>, messages |-> <<>>, messageIds |-> <<>>, i |-> 0,
           result |-> Err("none"), faulted |-> FALSE,
           route |-> "none", req |-> [kind |-> "none", chatId |-> 0, target |-> ""],
           found |-> <<>>, enriched |-> <<>>]

Returned(p, res) == [p EXCEPT !.pc = "done", !.result = res]

Rethrown(p, res) ==
    [p EXCEPT !.pc = "done", !.result = [error |-> "", val |-> [kind |-> "exception"]],
              !.faulted = TRUE]

Thrown(p, res) == [p EXCEPT !.pc = "done", !.result = res, !.faulted = TRUE]

(***************************************************************************)
(* Storage still to be claimed by the calls in flight.                     *)
(***************************************************************************)
MessagesToCreate(p) == IF p.op = "saveChat" THEN Len(p.messages) - Len(p.messageIds)
                       ELSE IF p.op = "createMessage" THEN 1 ELSE 0

RECURSIVE SumMessagesToCreate(_)
SumMessagesToCreate(S) == IF S = {} THEN 0
                          ELSE LET p == CHOOSE q \in S : TRUE
                               IN MessagesToCreate(p) + SumMessagesToCreate(S \ {p})

PendingMessages == SumMessagesToCreate(calls)

PendingChats == Cardinality({p \in calls : p.op = "saveChat"})

PendingPushes(c) == Cardinality({p \in calls : p.op = "addMessageToChat" /\ p.chatId = c})

Answered == {o \in ops : o.status # 0}

RoomForCall == Cardinality(calls) + Cardinality(Answered) < Cardinality(Callers)

RoomForMessages(n) == Len(messageDB) + PendingMessages + n <= MaxMessages

RoomForChat == Len(chatDB) + PendingChats + 1 <= MaxChats

RoomForPush(c) == (IF ChatExists(c) THEN Len(chatDB[c].messages) ELSE 0) + PendingPushes(c)
                     < MaxMessages

(***************************************************************************)
(* The calls, as they stand when the service function is entered.          *)
(***************************************************************************)
SaveChatEntry(ps, ms) ==
    [NoCall EXCEPT !.op = "saveChat", !.participants = ps, !.messages = ms, !.i = 1,
                   !.pc = IF Len(ps) > 0 THEN "lookup"
                          ELSE IF Len(ms) > 0 THEN "createMsg" ELSE "createChat"]

CreateMessageEntry(m) == [NoCall EXCEPT !.op = "createMessage", !.messages = <<m>>, !.pc = "create"]

AddMessageToChatEntry(c, k) ==
    [NoCall EXCEPT !.op = "addMessageToChat", !.chatId = c, !.messageId = k, !.pc = "update"]

GetChatEntry(c) == [NoCall EXCEPT !.op = "getChat", !.chatId = c, !.pc = "find"]

GetChatsByParticipantsEntry(ps) ==
    [NoCall EXCEPT !.op = "getChatsByParticipants", !.participants = ps, !.pc = "find"]

AddParticipantToChatEntry(c, u) ==
    [NoCall EXCEPT !.op = "addParticipantToChat", !.chatId = c, !.userId = u, !.pc = "lookup"]

(***************************************************************************)
(* Requests of the HTTP interface.  A request sent by the hook is          *)
(* remembered in ops until its response is taken; req names it in the      *)
(* call that serves it.                                                    *)
(***************************************************************************)
OpKey(kind, c, t) == [kind |-> kind, chatId |-> c, target |-> t]

Posted == OpKey("posted", 0, "")

Pending(key) == [req |-> key, status |-> 0, body |-> NoVal]

Response(key, status, body) == [req |-> key, status |-> status, body |-> body]

(***************************************************************************)
(* Socket rooms.  A room is named by a username or by a chat id.  The      *)
(* connection of the hook's user is in the room of its username from the   *)
(* start; rooms holds the rooms it is in.                                  *)
(***************************************************************************)
UserTopic(u) == [user |-> u, chat |-> 0]

ChatTopic(c) == [user |-> "", chat |-> c]

PersonalRooms == {UserTopic(User)}

Joined(e) == e.room \in rooms

BroadcastTo(e) == TRUE

Receives(e) == Joined(e)

Delivered(emits) ==
    LET got == SelectSeq(emits, Receives)
    IN [k \in 1..Len(got) |-> [type |-> got[k].type, chat |-> got[k].chat]]

(***************************************************************************)
(* How a step of a call ends: the call goes on to its next storage call,   *)
(* a direct call returns, or a route answers its request and publishes.    *)
(***************************************************************************)
Resume(p, q) ==
    /\ calls' = (calls \ {p}) \cup {q}
    /\ returned' = NoCall
    /\ emitted' = <<>>
    /\ handled' = "none"
    /\ UNCHANGED <<rooms, outbox, inbox, hook, ops, spent>>

Respond(p, status, body, emits) ==
    /\ calls' = calls \ {p}
    /\ returned' = NoCall
    /\ ops' = IF p.req = Posted THEN ops
              ELSE (ops \ {Pending(p.req)}) \cup {Response(p.req, status, body)}
    /\ inbox' = inbox \o Delivered(emits)
    /\ emitted' = emits
    /\ handled' = "none"
    /\ UNCHANGED <<rooms, outbox, hook, spent>>

(***************************************************************************)
(* The routes of the chat controller, as the calls they make.              *)
(***************************************************************************)
CreateChatRouteEntry(key, ps, ms) ==
    [SaveChatEntry(ps, ms) EXCEPT !.route = "createChat", !.req = key]

AddMessageToChatRouteEntry(key, c, m) ==
    [CreateMessageEntry(m) EXCEPT !.route = "addMessage", !.req = key, !.chatId = c]

GetChatRouteEntry(key, c) == [GetChatEntry(c) EXCEPT !.route = "getChat", !.req = key]

GetChatsByUserRouteEntry(key, u) ==
    [GetChatsByParticipantsEntry(<<u>>) EXCEPT !.route = "getChatsByUser", !.req = key]

PopulateEntry(p, c) == [p EXCEPT !.op = "populateDocument", !.pc = "populate", !.chatId = c]

CreatedEmits(ps, chat) ==
    [k \in 1..Len(ps) |-> [room |-> UserTopic(ps[k]), type |-> "created", chat |-> chat]]

CreateChatRoute(p, res) ==
    IF IsError(res) THEN Respond(p, 500, NoVal, <<>>)
    ELSE IF p.op = "saveChat"
         THEN Resume(p, [PopulateEntry(p, res.val.id) EXCEPT !.participants = res.val.participants])
         ELSE Respond(p, 200, res.val, CreatedEmits(p.participants, res.val))

AddMessageToChatRoute(p, res) ==
    IF p.op = "createMessage"
    THEN IF IsError(res) THEN Respond(p, 500, NoVal, <<>>)
         ELSE Resume(p, [p EXCEPT !.op = "addMessageToChat", !.pc = "update",
                                  !.messageId = res.val.id])
    ELSE IF p.op = "addMessageToChat"
    THEN IF IsError(res) THEN Respond(p, 500, NoVal, <<>>)
         ELSE Resume(p, PopulateEntry(p, res.val.id))
    ELSE Resume(p, [p EXCEPT !.op = "respond", !.pc = "respond",
                             !.enriched = <<IF IsError(res) THEN [kind |-> "error"]
                                            ELSE res.val>>])

GetChatRoute(p, res) ==
    IF IsError(res) THEN Respond(p, 500, NoVal, <<>>)
    ELSE IF p.op = "getChat" THEN Resume(p, PopulateEntry(p, res.val.id))
    ELSE Respond(p, 200, res.val, <<>>)

GetChatsByUserRoute(p, res) ==
    IF p.op = "getChatsByParticipants"
    THEN LET chatResult == res.val.list
         IN IF Len(chatResult) = 0
            THEN Respond(p, 200, [kind |-> "chats", list |-> <<>>], <<>>)
            ELSE Resume(p, [PopulateEntry(p, chatResult[1].id)
                               EXCEPT !.found = [k \in 1..Len(chatResult) |-> chatResult[k].id],
                                      !.i = 1])
    ELSE IF IsError(res) THEN Respond(p, 500, NoVal, <<>>)
    ELSE IF p.i < Len(p.found)
         THEN Resume(p, [PopulateEntry(p, p.found[p.i + 1])
                            EXCEPT !.i = p.i + 1, !.enriched = Append(p.enriched, res.val)])
         ELSE Respond(p, 200, [kind |-> "chats", list |-> Append(p.enriched, res.val)], <<>>)

Finish(p, q) ==
    IF p.route = "createChat" THEN CreateChatRoute(p, q.result)
    ELSE IF p.route = "addMessage" THEN AddMessageToChatRoute(p, q.result)
    ELSE IF p.route = "getChat" THEN GetChatRoute(p, q.result)
    ELSE IF p.route = "getChatsByUser" THEN GetChatsByUserRoute(p, q.result)
    ELSE /\ calls' = calls \ {p}
         /\ returned' = q
         /\ emitted' = <<>>
         /\ handled' = "none"
         /\ UNCHANGED <<rooms, outbox, inbox, hook, ops, spent>>

(***************************************************************************)
(* saveChat                                                                *)
(***************************************************************************)
SaveChatAfterFirstLookup(p) ==
    IF ~UserFindById(p.participants[1]) THEN Returned(p, Err("User not found"))
    ELSE [p EXCEPT !.i = 1, !.pc = IF Len(p.messages) > 0 THEN "createMsg" ELSE "createChat"]

SaveChatAfterLookup(p) ==
    IF ~UserFindById(p.participants[p.i]) THEN Returned(p, Err("User not found"))
    ELSE IF p.i < Len(p.participants) THEN [p EXCEPT !.i = @ + 1]
    ELSE [p EXCEPT !.i = 1, !.pc = IF Len(p.messages) > 0 THEN "createMsg" ELSE "createChat"]

SaveChatLookup(p) ==
    /\ p.op = "saveChat" /\ p.pc = "lookup"
    /\ LET q == SaveChatAfterLookup(p)
       IN IF q.pc = "done" THEN Finish(p, q) ELSE Resume(p, q)
    /\ UNCHANGED <<chatDB, messageDB>>

SaveChatCreateMessageFront(p) ==
    /\ p.op = "saveChat" /\ p.pc = "createMsg"
    /\ messageDB' = Append(messageDB, p.messages[p.i])
    /\ Resume(p, [p EXCEPT !.messageIds = PushFront(@, Len(messageDB) + 1),
                           !.i = @ + 1,
                           !.pc = IF p.i < Len(p.messages) THEN "createMsg" ELSE "createChat"])
    /\ UNCHANGED chatDB

SaveChatCreateMessage(p) ==
    /\ p.op = "saveChat" /\ p.pc = "createMsg"
    /\ messageDB' = Append(messageDB, p.messages[p.i])
    /\ Resume(p, [p EXCEPT !.messageIds = Append(@, Len(messageDB) + 1),
                           !.i = @ + 1,
                           !.pc = IF p.i < Len(p.messages) THEN "createMsg" ELSE "createChat"])
    /\ UNCHANGED chatDB

SaveChatCreateChat(p) ==
    /\ p.op = "saveChat" /\ p.pc = "createChat"
    /\ chatDB' = Append(chatDB, [participants |-> p.participants, messages |-> p.messageIds])
    /\ Finish(p, Returned(p, Ok([kind |-> "chat", id |-> Len(chatDB) + 1,
                                 participants |-> p.participants,
                                 messages |-> p.messageIds])))
    /\ UNCHANGED messageDB

SaveChatCatch(p) ==
    /\ p.op = "saveChat"
    /\ Finish(p, Thrown(p, Err("Failed to save chat")))
    /\ UNCHANGED <<chatDB, messageDB>>

(***************************************************************************)
(* createMessage                                                           *)
(***************************************************************************)
CreateMessage(p) ==
    /\ p.op = "createMessage" /\ p.pc = "create"
    /\ messageDB' = Append(messageDB, p.messages[1])
    /\ Finish(p, Returned(p, Ok([kind |-> "message", id |-> Len(messageDB) + 1,
                                 msg |-> p.messages[1].msg,
                                 msgFrom |-> p.messages[1].msgFrom])))
    /\ UNCHANGED chatDB

CreateMessageCatch(p) ==
    /\ p.op = "createMessage"
    /\ Finish(p, Thrown(p, Err("Failed create message")))
    /\ UNCHANGED <<chatDB, messageDB>>

(***************************************************************************)
(* addMessageToChat                                                        *)
(***************************************************************************)
AddMessageToChatUpsert(p) ==
    /\ p.op = "addMessageToChat" /\ p.pc = "update"
    /\ chatDB' = IF ChatExists(p.chatId)
                 THEN [chatDB EXCEPT ![p.chatId].messages = Push(@, p.messageId)]
                 ELSE Append(chatDB, [participants |-> <<>>, messages |-> <<p.messageId>>])
    /\ Finish(p, Returned(p, Ok([kind |-> "chat", id |-> p.chatId,
                                 participants |-> <<>>, messages |-> <<p.messageId>>])))
    /\ UNCHANGED messageDB

AddMessageToChatInTurn(p) ==
    /\ p.op = "addMessageToChat" /\ p.pc = "update"
    /\ \A q \in calls \ {p} :
          ~(q.route = "addMessage" /\ q.chatId = p.chatId /\ q.pc \in {"populate", "respond"})
    /\ IF ~ChatExists(p.chatId)
       THEN /\ Finish(p, Returned(p, Err("Chat not found")))
            /\ UNCHANGED chatDB
       ELSE /\ chatDB' = [chatDB EXCEPT ![p.chatId].messages = Push(@, p.messageId)]
            /\ Finish(p, Returned(p, Ok([kind |-> "chat", id |-> p.chatId,
                                         participants |-> chatDB[p.chatId].participants,
                                         messages |-> Push(chatDB[p.chatId].messages,
                                                           p.messageId)])))
    /\ UNCHANGED messageDB

AddMessageToChat(p) ==
    /\ p.op = "addMessageToChat" /\ p.pc = "update"
    /\ IF ~ChatExists(p.chatId)
       THEN /\ Finish(p, Returned(p, Err("Chat not found")))
            /\ UNCHANGED chatDB
       ELSE /\ chatDB' = [chatDB EXCEPT ![p.chatId].messages = Push(@, p.messageId)]
            /\ Finish(p, Returned(p, Ok([kind |-> "chat", id |-> p.chatId,
                                         participants |-> chatDB[p.chatId].participants,
                                         messages |-> Push(chatDB[p.chatId].messages,
                                                           p.messageId)])))
    /\ UNCHANGED messageDB

AddMessageToChatCatch(p) ==
    /\ p.op = "addMessageToChat"
    /\ Finish(p, Thrown(p, Err("Failed to add message to chat")))
    /\ UNCHANGED <<chatDB, messageDB>>

(***************************************************************************)
(* getChat                                                                 *)
(***************************************************************************)
GetChat(p) ==
    /\ p.op = "getChat" /\ p.pc = "find"
    /\ Finish(p, Returned(p, IF ~ChatExists(p.chatId) THEN Err("Chat not found")
                             ELSE Ok(ChatDoc(p.chatId))))
    /\ UNCHANGED <<chatDB, messageDB>>

GetChatCatch(p) ==
    /\ p.op = "getChat"
    /\ Finish(p, Thrown(p, Err("Failed to get chat")))
    /\ UNCHANGED <<chatDB, messageDB>>

(***************************************************************************)
(* getChatsByParticipants                                                  *)
(***************************************************************************)
GetChatsByParticipants(p) ==
    /\ p.op = "getChatsByParticipants" /\ p.pc = "find"
    /\ Finish(p, Returned(p, Ok([kind |-> "chats",
                                 list |-> SelectChats(chatDB, p.participants, 1)])))
    /\ UNCHANGED <<chatDB, messageDB>>

GetChatsByParticipantsCatch(p) ==
    /\ p.op = "getChatsByParticipants"
    /\ Finish(p, Thrown(p, Ok([kind |-> "chats", list |-> <<>>])))
    /\ UNCHANGED <<chatDB, messageDB>>

(***************************************************************************)
(* addParticipantToChat                                                    *)
(***************************************************************************)
AddParticipantNoLookup(p) ==
    /\ p.op = "addParticipantToChat" /\ p.pc = "lookup"
    /\ Resume(p, [p EXCEPT !.pc = "update"])
    /\ UNCHANGED <<chatDB, messageDB>>

AddParticipantLookup(p) ==
    /\ p.op = "addParticipantToChat" /\ p.pc = "lookup"
    /\ IF ~UserFindById(p.userId)
       THEN Finish(p, Returned(p, Err("User not found")))
       ELSE Resume(p, [p EXCEPT !.pc = "update"])
    /\ UNCHANGED <<chatDB, messageDB>>

AddParticipantUpdate(p) ==
    /\ p.op = "addParticipantToChat" /\ p.pc = "update"
    /\ IF ~ChatExists(p.chatId)
       THEN /\ Finish(p, Returned(p, Err("Failed to add participant to chat")))
            /\ UNCHANGED chatDB
       ELSE /\ chatDB' = [chatDB EXCEPT ![p.chatId].participants = AddToSet(@, p.userId)]
            /\ Finish(p, Returned(p, Ok([kind |-> "chat", id |-> p.chatId,
                                         participants |-> AddToSet(chatDB[p.chatId].participants,
                                                                   p.userId),
                                         messages |-> chatDB[p.chatId].messages])))
    /\ UNCHANGED messageDB

AddParticipantCatch(p) ==
    /\ p.op = "addParticipantToChat"
    /\ Finish(p, Thrown(p, Err("Failed to add participant to chat")))
    /\ UNCHANGED <<chatDB, messageDB>>

(***************************************************************************)
(* populateDocument, and the answer of addMessageToChatRoute, which        *)
(* publishes the chat as populateDocument read it.                         *)
(***************************************************************************)
Populate(p) ==
    /\ p.op = "populateDocument" /\ p.pc = "populate"
    /\ Finish(p, Returned(p, PopulateDocument(p.chatId)))
    /\ UNCHANGED <<chatDB, messageDB>>

NoEmits(c, chat) == <<>>

NewMessageEmits(c, chat) == <<[room |-> ChatTopic(c), type |-> "newMessage", chat |-> chat]>>

AddMessageToChatRespond(p) ==
    /\ p.route = "addMessage" /\ p.pc = "respond"
    /\ Respond(p, 200, p.enriched[1], NewMessageEmits(p.chatId, p.enriched[1]))
    /\ UNCHANGED <<chatDB, messageDB>>

(***************************************************************************)
(* The service called directly, several calls in flight at once.  A call   *)
(* of a function that awaits storage once takes effect at that storage     *)
(* call; saveChat and addParticipantToChat stay in flight between theirs.  *)
(* addMessageToChat is handed the id of a stored message that no chat      *)
(* holds yet, as its caller in the controller does.                        *)
(***************************************************************************)
Enter(q) ==
    /\ RoomForCall
    /\ calls' = calls \cup {q}
    /\ returned' = NoCall
    /\ emitted' = <<>>
    /\ handled' = "none"
    /\ UNCHANGED <<chatDB, messageDB, rooms, outbox, inbox, hook, ops, spent>>

CallSaveChat ==
    \E ps \in ParticipantLists, ms \in MessageLists :
        RoomForChat /\ RoomForMessages(Len(ms)) /\ Enter(SaveChatEntry(ps, ms))

CallAddParticipantToChat ==
    \E c \in ChatIds, u \in Usernames : Enter(AddParticipantToChatEntry(c, u))

CallCreateMessage ==
    \E m \in MessageInputs : RoomForMessages(1) /\ CreateMessage(CreateMessageEntry(m))

Unreferenced(k) == \A d \in 1..Len(chatDB) : k \notin Range(chatDB[d].messages)

CallAddMessageToChat ==
    \E c \in ChatIds, k \in 1..Len(messageDB) :
        RoomForPush(c) /\ Unreferenced(k) /\ AddMessageToChat(AddMessageToChatEntry(c, k))

CallGetChat ==
    \E c \in ChatIds : GetChat(GetChatEntry(c))

CallGetChatsByParticipants ==
    \E ps \in QueryLists : GetChatsByParticipants(GetChatsByParticipantsEntry(ps))

(***************************************************************************)
(* Requests the other user sends to the HTTP interface, one in flight at   *)
(* a time.                                                                 *)
(***************************************************************************)
RoomForPost == \A p \in calls : p.req # Posted

RoomForRequest == ops = {}

Input == /\ spent < MaxInputs
         /\ spent' = spent + 1

Post(q) ==
    /\ RoomForPost /\ Input
    /\ calls' = calls \cup {q}
    /\ returned' = NoCall
    /\ emitted' = <<>>
    /\ handled' = "none"
    /\ UNCHANGED <<chatDB, messageDB, rooms, outbox, inbox, hook, ops>>

PostCreateChat ==
    \E ps \in PostedParticipantLists :
        Post(CreateChatRouteEntry(Posted, ps, <<>>))

PostAddMessage ==
    \E c \in 1..Len(chatDB) + 1, m \in PostedMessages :
        Post(AddMessageToChatRouteEntry(Posted, c, m))

(***************************************************************************)
(* The socket connection of the hook's user, as the server handles it.     *)
(***************************************************************************)
JoinChat ==
    /\ outbox # <<>> /\ Head(outbox).event = "joinChat"
    /\ rooms' = rooms \cup {ChatTopic(Head(outbox).chatId)}
    /\ outbox' = Tail(outbox)
    /\ emitted' = <<>> /\ handled' = "none"
    /\ UNCHANGED <<chatDB, messageDB, calls, returned, inbox, hook, ops, spent>>

LeaveEveryChat ==
    /\ outbox # <<>> /\ Head(outbox).event = "leaveChat"
    /\ rooms' = IF Head(outbox).chatId # 0 THEN rooms \ {ChatTopic(Head(outbox).chatId)}
                ELSE PersonalRooms
    /\ outbox' = Tail(outbox)
    /\ emitted' = <<>> /\ handled' = "none"
    /\ UNCHANGED <<chatDB, messageDB, calls, returned, inbox, hook, ops, spent>>

LeaveChat ==
    /\ outbox # <<>> /\ Head(outbox).event = "leaveChat"
    /\ rooms' = IF Head(outbox).chatId # 0 THEN rooms \ {ChatTopic(Head(outbox).chatId)}
                ELSE rooms
    /\ outbox' = Tail(outbox)
    /\ emitted' = <<>> /\ handled' = "none"
    /\ UNCHANGED <<chatDB, messageDB, calls, returned, inbox, hook, ops, spent>>

(***************************************************************************)
(* useDirectMessage.  hook is the state of the mounted hook; effect is the *)
(* id of the selectedChat that the effect in force closed over (0 when it  *)
(* closed over null).  The hook has one request outstanding at a time; a   *)
(* request whose response arrives after the unmount still runs the rest of *)
(* its handler, and its state updates are dropped.  An effect that is      *)
(* pending runs before the component unmounts.                             *)
(***************************************************************************)
Unmounted == [mounted |-> FALSE, chats |-> <<>>, selectedChat |-> NoVal, effect |-> 0]

SelectedId == IF hook.selectedChat = NoVal THEN 0 ELSE hook.selectedChat.id

Emit(event, c) == outbox' = Append(outbox, [event |-> event, chatId |-> c])

Request(key, q) ==
    /\ RoomForRequest
    /\ ops' = ops \cup {Pending(key)}
    /\ calls' = calls \cup {q}

Quiet == /\ emitted' = <<>>
         /\ handled' = "none"
         /\ UNCHANGED <<chatDB, messageDB, returned, rooms, inbox>>

FetchChats ==
    Request(OpKey("fetch", 0, ""), GetChatsByUserRouteEntry(OpKey("fetch", 0, ""), User))

Mount ==
    /\ ~hook.mounted /\ ops = {} /\ outbox = <<>> /\ inbox = <<>>
    /\ hook' = [Unmounted EXCEPT !.mounted = TRUE]
    /\ FetchChats
    /\ UNCHANGED outbox
    /\ UNCHANGED spent
    /\ Quiet

RunEffect ==
    /\ hook.mounted /\ SelectedId # hook.effect
    /\ Emit("leaveChat", hook.effect)
    /\ hook' = [hook EXCEPT !.effect = SelectedId]
    /\ FetchChats
    /\ UNCHANGED spent
    /\ Quiet

Unmount ==
    /\ hook.mounted /\ SelectedId = hook.effect /\ Input
    /\ Emit("leaveChat", hook.effect)
    /\ hook' = Unmounted
    /\ UNCHANGED <<calls, ops>>
    /\ Quiet

GetChatsByUserResponse(o) ==
    /\ o \in ops /\ o.req.kind = "fetch" /\ o.status # 0
    /\ ops' = ops \ {o}
    /\ hook' = IF o.status = 200 /\ hook.mounted THEN [hook EXCEPT !.chats = o.body.list]
               ELSE hook
    /\ UNCHANGED <<calls, outbox>>
    /\ UNCHANGED spent
    /\ Quiet

HandleChatSelect(chatID) ==
    /\ hook.mounted /\ Input
    /\ IF chatID = 0
       THEN /\ hook' = [hook EXCEPT !.selectedChat = NoVal]
            /\ UNCHANGED <<calls, ops>>
       ELSE /\ Request(OpKey("select", chatID, ""),
                       GetChatRouteEntry(OpKey("select", chatID, ""), chatID))
            /\ UNCHANGED hook
    /\ UNCHANGED outbox
    /\ Quiet

GetChatByIdResponse(o) ==
    /\ o \in ops /\ o.req.kind = "select" /\ o.status # 0
    /\ ops' = ops \ {o}
    /\ IF o.status = 200
       THEN /\ hook' = IF hook.mounted THEN [hook EXCEPT !.selectedChat = o.body] ELSE hook
            /\ Emit("joinChat", o.req.chatId)
       ELSE UNCHANGED <<hook, outbox>>
    /\ UNCHANGED calls
    /\ UNCHANGED spent
    /\ Quiet

HandleCreateChat(chatToCreate) ==
    /\ hook.mounted /\ Input
    /\ Request(OpKey("create", 0, chatToCreate),
               CreateChatRouteEntry(OpKey("create", 0, chatToCreate), <<User, chatToCreate>>, <<>>))
    /\ UNCHANGED <<hook, outbox>>
    /\ Quiet

CreateChatResponse(o) ==
    /\ o \in ops /\ o.req.kind = "create" /\ o.status # 0
    /\ ops' = ops \ {o}
    /\ IF o.status = 200
       THEN /\ hook' = IF hook.mounted
                       THEN [hook EXCEPT !.chats = Append(@, o.body), !.selectedChat = o.body]
                       ELSE hook
            /\ Emit("joinChat", o.body.id)
       ELSE UNCHANGED <<hook, outbox>>
    /\ UNCHANGED calls
    /\ UNCHANGED spent
    /\ Quiet

HandleSendMessage(newMessage) ==
    /\ hook.mounted /\ SelectedId # 0 /\ Input
    /\ Request(OpKey("send", SelectedId, ""),
               AddMessageToChatRouteEntry(OpKey("send", SelectedId, ""), SelectedId,
                                          [msg |-> newMessage, msgFrom |-> User]))
    /\ UNCHANGED <<hook, outbox>>
    /\ Quiet

SendMessageResponse(o) ==
    /\ o \in ops /\ o.req.kind = "send" /\ o.status # 0
    /\ ops' = ops \ {o}
    /\ UNCHANGED <<calls, hook, outbox>>
    /\ UNCHANGED spent
    /\ Quiet

(***************************************************************************)
(* handleChatUpdate                                                        *)
(***************************************************************************)
HasChat(chats, c) == \E k \in DOMAIN chats : chats[k].id = c

AddCreatedAlways(chats, chat) == Append(chats, chat)

AddCreated(chats, chat) ==
    IF User \in Range(chat.participants) /\ ~HasChat(chats, chat.id)
    THEN Append(chats, chat) ELSE chats

ReplaceChat(chats, chat) ==
    [k \in DOMAIN chats |-> IF chats[k].id = chat.id THEN chat ELSE chats[k]]

IgnoreUpdate(h, chatUpdate) == [state |-> h, outcome |-> "ignored"]

HandleChatUpdate(h, chatUpdate) ==
    IF chatUpdate.chat.kind # "chat" THEN [state |-> h, outcome |-> "threw"]
    ELSE IF chatUpdate.type = "created"
    THEN [state |-> [h EXCEPT !.chats = AddCreated(@, chatUpdate.chat)], outcome |-> "created"]
    ELSE IF chatUpdate.type = "newMessage"
    THEN [state |-> [h EXCEPT !.selectedChat = IF h.effect # 0 /\ h.effect = chatUpdate.chat.id
                                               THEN chatUpdate.chat ELSE @,
                              !.chats = ReplaceChat(@, chatUpdate.chat)],
          outcome |-> "newMessage"]
    ELSE [state |-> h, outcome |-> "threw"]

ChatUpdate ==
    /\ inbox # <<>>
    /\ inbox' = Tail(inbox)
    /\ IF hook.mounted
       THEN LET done == HandleChatUpdate(hook, Head(inbox))
            IN hook' = done.state /\ handled' = done.outcome
       ELSE UNCHANGED hook /\ handled' = "none"
    /\ emitted' = <<>>
    /\ UNCHANGED <<chatDB, messageDB, calls, returned, rooms, outbox, ops, spent>>

(***************************************************************************)
(* A chatUpdate event of a type the hook does not know, sent to the        *)
(* connection by a server that has moved ahead of the client.              *)
(***************************************************************************)
UnknownUpdate ==
    /\ hook.mounted /\ Input
    /\ \E c \in 1..Len(chatDB), t \in UnknownTypes :
          inbox' = Append(inbox, [type |-> t, chat |-> PopulateDocument(c).val])
    /\ emitted' = <<>> /\ handled' = "none"
    /\ UNCHANGED <<chatDB, messageDB, calls, returned, rooms, outbox, hook, ops>>

(***************************************************************************)
(* The subsystem as it starts, and as it stands once the other user has    *)
(* created a chat with the hook's user, who has selected it.               *)
(***************************************************************************)
Fresh ==
    /\ chatDB = <<>>
    /\ messageDB = <<>>
    /\ calls = {}
    /\ returned = NoCall
    /\ rooms = PersonalRooms
    /\ outbox = <<>>
    /\ inbox = <<>>
    /\ emitted = <<>>
    /\ handled = "none"
    /\ hook = Unmounted
    /\ ops = {}
    /\ spent = 0

ChatSelected ==
    /\ chatDB = <<[participants |-> <<"A", User>>, messages |-> <<>>]>>
    /\ messageDB = <<>>
    /\ calls = {}
    /\ returned = NoCall
    /\ rooms = PersonalRooms \cup {ChatTopic(1)}
    /\ outbox = <<>>
    /\ inbox = <<>>
    /\ emitted = <<>>
    /\ handled = "none"
    /\ hook = [mounted |-> TRUE, chats |-> <<PopulateDocument(1).val>>,
               selectedChat |-> PopulateDocument(1).val, effect |-> 1]
    /\ ops = {}
    /\ spent = 0

Init == Fresh \/ ChatSelected

ServiceNext ==
    \/ CallSaveChat
    \/ \E p \in calls : SaveChatLookup(p)
    \/ \E p \in calls : SaveChatCreateMessage(p)
    \/ \E p \in calls : SaveChatCreateChat(p)
    \/ CallAddParticipantToChat
    \/ \E p \in calls : AddParticipantLookup(p)
    \/ \E p \in calls : AddParticipantUpdate(p)
    \/ CallCreateMessage
    \/ CallAddMessageToChat
    \/ CallGetChat
    \/ CallGetChatsByParticipants

ServiceSpec == Fresh /\ [][ServiceNext]_vars

Next ==
    \/ PostCreateChat
    \/ PostAddMessage
    \/ \E p \in calls : SaveChatLookup(p)
    \/ \E p \in calls : SaveChatCreateChat(p)
    \/ \E p \in calls : CreateMessage(p)
    \/ \E p \in calls : AddMessageToChat(p)
    \/ \E p \in calls : GetChat(p)
    \/ \E p \in calls : GetChatsByParticipants(p)
    \/ \E p \in calls : Populate(p)
    \/ \E p \in calls : AddMessageToChatRespond(p)
    \/ JoinChat
    \/ LeaveChat
    \/ Mount
    \/ RunEffect
    \/ Unmount
    \/ \E o \in ops : GetChatsByUserResponse(o)
    \/ \E c \in 0..Len(chatDB) + 1 : HandleChatSelect(c)
    \/ \E o \in ops : GetChatByIdResponse(o)
    \/ \E t \in ChatTargets : HandleCreateChat(t)
    \/ \E o \in ops : CreateChatResponse(o)
    \/ \E t \in SentTexts : HandleSendMessage(t)
    \/ \E o \in ops : SendMessageResponse(o)
    \/ ChatUpdate
    \/ UnknownUpdate

Spec == Init /\ [][Next]_vars

(***************************************************************************)
(* The subsystem with a stored chat that the hook's user is no participant *)
(* of, the hook mounted.                                                   *)
(***************************************************************************)
ForeignChat ==
    /\ chatDB = <<[participants |-> <<"A">>, messages |-> <<>>]>>
    /\ messageDB = <<>>
    /\ calls = {}
    /\ returned = NoCall
    /\ rooms = PersonalRooms
    /\ outbox = <<>>
    /\ inbox = <<>>
    /\ emitted = <<>>
    /\ handled = "none"
    /\ hook = [Unmounted EXCEPT !.mounted = TRUE]
    /\ ops = {}
    /\ spent = 0

GuestSpec == ForeignChat /\ [][Next]_vars

(***************************************************************************)
(* The service under every outcome of its storage calls: a storage call    *)
(* may raise at any await, which the function's catch turns into its       *)
(* return value, and ChatModel.find may yield nothing.                     *)
(***************************************************************************)
CreateLists == {<<"A", "B">>, <<"A">>, <<"Z">>}

CreateMessageLists ==
    {<<>>, <<[msg |-> "hello", msgFrom |-> "A"], [msg |-> "bye", msgFrom |-> "B"]>>}

GetChatsByParticipantsNothing(p) ==
    /\ p.op = "getChatsByParticipants" /\ p.pc = "find"
    /\ Finish(p, Returned(p, Ok([kind |-> "chats", list |-> <<>>])))
    /\ UNCHANGED <<chatDB, messageDB>>

CallSaveChatOf ==
    \E ps \in CreateLists, ms \in CreateMessageLists :
        RoomForChat /\ RoomForMessages(Len(ms)) /\ Enter(SaveChatEntry(ps, ms))

FailCreateMessage ==
    \E m \in MessageInputs : CreateMessageCatch(CreateMessageEntry(m))

FailAddMessageToChat ==
    \E c \in ChatIds, k \in 1..Len(messageDB) :
        Unreferenced(k) /\ AddMessageToChatCatch(AddMessageToChatEntry(c, k))

FailGetChat ==
    \E c \in ChatIds : GetChatCatch(GetChatEntry(c))

FailGetChatsByParticipants ==
    \E ps \in QueryLists : GetChatsByParticipantsCatch(GetChatsByParticipantsEntry(ps))

NothingByParticipants ==
    \E ps \in QueryLists : GetChatsByParticipantsNothing(GetChatsByParticipantsEntry(ps))

OneAtATime == calls = {}

FaultNext ==
    \/ OneAtATime /\ CallSaveChatOf
    \/ \E p \in calls : SaveChatLookup(p)
    \/ \E p \in calls : SaveChatCreateMessage(p)
    \/ \E p \in calls : SaveChatCreateChat(p)
    \/ \E p \in calls : SaveChatCatch(p)
    \/ OneAtATime /\ CallAddParticipantToChat
    \/ \E p \in calls : AddParticipantLookup(p)
    \/ \E p \in calls : AddParticipantUpdate(p)
    \/ \E p \in calls : AddParticipantCatch(p)
    \/ CallCreateMessage
    \/ FailCreateMessage
    \/ CallAddMessageToChat
    \/ FailAddMessageToChat
    \/ CallGetChat
    \/ FailGetChat
    \/ CallGetChatsByParticipants
    \/ FailGetChatsByParticipants
    \/ NothingByParticipants

FaultSpec == Fresh /\ [][FaultNext]_vars

(***************************************************************************)
(* saveChat calls in flight together, with createMessage, addMessageToChat *)
(* and getChat calls between their steps.                                  *)
(***************************************************************************)
CreateNext ==
    \/ CallSaveChatOf
    \/ \E p \in calls : SaveChatLookup(p)
    \/ \E p \in calls : SaveChatCreateMessage(p)
    \/ \E p \in calls : SaveChatCreateChat(p)
    \/ CallCreateMessage
    \/ CallAddMessageToChat
    \/ CallGetChat

CreateSpec == Fresh /\ [][CreateNext]_vars

(***************************************************************************)
(* The HTTP interface as a client other than the hook drives it: request   *)
(* bodies of every shape, storage calls and populateDocument that may      *)
(* fail, and the responses kept in ops until the client takes them.        *)
(***************************************************************************)
Absent == [kind |-> "absent", items |-> <<>>]

Scalar == [kind |-> "scalar", items |-> <<>>]

Array(items) == [kind |-> "array", items |-> items]

CreateBodies ==
    {[participants |-> ps, messages |-> ms] :
        ps \in {Absent, Scalar, Array(<<>>), Array(<<"A", "B">>), Array(<<"A", "Z">>)},
        ms \in {Absent, Array(<<>>)}}

AnyBody(body) == TRUE

IsCreateChatRequestValid(body) ==
    /\ body.participants.kind = "array"
    /\ Len(body.participants.items) > 0
    /\ body.messages.kind = "array"

ClientKey(kind, c) == OpKey(kind, c, "client")

ClientCreateChat ==
    \E body \in CreateBodies :
        /\ Input /\ RoomForRequest
        /\ IF IsCreateChatRequestValid(body)
           THEN Request(ClientKey("create", 0),
                        CreateChatRouteEntry(ClientKey("create", 0), body.participants.items,
                                             body.messages.items))
           ELSE /\ ops' = ops \cup {Response(ClientKey("create", 0), 400, NoVal)}
                /\ UNCHANGED calls
        /\ UNCHANGED <<hook, outbox>>
        /\ Quiet

ClientAddMessage ==
    \E c \in 1..Len(chatDB) + 1, m \in PostedMessages :
        /\ Input
        /\ Request(ClientKey("send", c), AddMessageToChatRouteEntry(ClientKey("send", c), c, m))
        /\ UNCHANGED <<hook, outbox>>
        /\ Quiet

TakeResponse ==
    \E o \in ops :
        /\ o.req.target = "client" /\ o.status # 0
        /\ ops' = ops \ {o}
        /\ UNCHANGED <<calls, hook, outbox, spent>>
        /\ Quiet

PopulateFails(p) ==
    /\ p.op = "populateDocument" /\ p.pc = "populate"
    /\ Finish(p, Returned(p, Err("Failed to fetch and populate a chat")))
    /\ UNCHANGED <<chatDB, messageDB>>

RouteNext ==
    \/ ClientCreateChat
    \/ ClientAddMessage
    \/ TakeResponse
    \/ \E p \in calls : SaveChatLookup(p)
    \/ \E p \in calls : SaveChatCreateChat(p)
    \/ \E p \in calls : SaveChatCatch(p)
    \/ \E p \in calls : CreateMessage(p)
    \/ \E p \in calls : CreateMessageCatch(p)
    \/ \E p \in calls : AddMessageToChat(p)
    \/ \E p \in calls : AddMessageToChatCatch(p)
    \/ \E p \in calls : Populate(p)
    \/ \E p \in calls : PopulateFails(p)
    \/ \E p \in calls : AddMessageToChatRespond(p)
    \/ ChatUpdate

RouteSpec == Init /\ [][RouteNext]_vars

(***************************************************************************)
(* The hook with a chat selected, the other user posting messages to it.   *)
(* Every request in flight is served and answered, every socket message is *)
(* handled and every pending effect runs.                                  *)
(***************************************************************************)
Serve ==
    \/ \E p \in calls : CreateMessage(p)
    \/ \E p \in calls : AddMessageToChat(p)
    \/ \E p \in calls : GetChat(p)
    \/ \E p \in calls : GetChatsByParticipants(p)
    \/ \E p \in calls : Populate(p)
    \/ \E p \in calls : AddMessageToChatRespond(p)

Settle ==
    \/ JoinChat
    \/ LeaveChat
    \/ RunEffect
    \/ ChatUpdate
    \/ \E o \in ops : GetChatsByUserResponse(o)
    \/ \E o \in ops : GetChatByIdResponse(o)
    \/ \E o \in ops : SendMessageResponse(o)

LiveNext ==
    \/ PostAddMessage
    \/ \E c \in 0..Len(chatDB) + 1 : HandleChatSelect(c)
    \/ \E t \in SentTexts : HandleSendMessage(t)
    \/ Unmount
    \/ Serve
    \/ Settle

LiveSpec == ChatSelected /\ [][LiveNext]_vars /\ WF_vars(Serve) /\ WF_vars(Settle)

Settled(c) ==
    /\ hook.mounted
    /\ SelectedId = c
    /\ hook.effect = c
    /\ ChatTopic(c) \in rooms

Appending(c, k) ==
    \E p \in calls : /\ p.route = "addMessage" /\ p.op = "addMessageToChat"
                     /\ p.chatId = c /\ p.messageId = k
                     /\ p.messages[1].msgFrom = "A"

SelectedHas(k) ==
    \E j \in DOMAIN hook.selectedChat.messages : hook.selectedChat.messages[j].id = k

SelectedEndsLike(k) ==
    LET ms == hook.selectedChat.messages
    IN /\ Len(ms) > 0 /\ k <= Len(messageDB)
       /\ ms[Len(ms)].msgFrom = messageDB[k].msgFrom
       /\ ms[Len(ms)].msg = messageDB[k].msg

HasMissingUser(ps) == \E k \in DOMAIN ps : ps[k] \notin UserDB

Stepped(p) == p \in calls /\ p \notin calls'

\* C4: a saveChat call whose participant list names a user that does not
\* exist never changes the Chat or the Message collection: each of its steps
\* is one more participant lookup, and it returns 'User not found' with no
\* message created.
C4_MissingUserPersistsNothing ==
    [][\A p \in calls :
          (p.op = "saveChat" /\ HasMissingUser(p.participants) /\ Stepped(p))
          => /\ chatDB' = chatDB
             /\ messageDB' = messageDB
             /\ \/ [p EXCEPT !.i = p.i + 1] \in calls'
                \/ /\ returned' = Returned(p, Err("User not found"))
                   /\ p.messageIds = <<>>]_vars

C4_Witness ==
    /\ returned.op = "saveChat"
    /\ returned.participants = <<"A", "Z">>
    /\ Len(returned.messages) > 0
    /\ returned.result = Err("User not found")
    /\ messageDB = <<>>
    /\ chatDB = <<>>

\* C7: no step removes a chat, and every step leaves each chat's message-id
\* sequence a prefix of what it is afterwards, whichever of saveChat,
\* createMessage, addMessageToChat, addParticipantToChat, getChat and
\* getChatsByParticipants takes it and however their steps interleave.
C7_MessageIdsOnlyGrow ==
    [][/\ Len(chatDB') >= Len(chatDB)
       /\ \A c \in 1..Len(chatDB) : IsPrefix(chatDB[c].messages, chatDB'[c].messages)]_vars

C7_Witness ==
    \E c \in 1..Len(chatDB) :
        /\ Len(chatDB[c].messages) >= 2
        /\ chatDB[c].participants = <<"A", "B">>
        /\ returned.op = "addParticipantToChat"
        /\ ~IsError(returned.result)

\* C8: the update of addParticipantToChat on a stored chat succeeds, returns
\* the chat as stored, makes its participant set the old set plus the user,
\* and changes nothing when the user is already a participant (so a second
\* add of the same user changes nothing).
C8_AddParticipantIdempotent ==
    [][\A p \in calls :
          (p.op = "addParticipantToChat" /\ p.pc = "update" /\ Stepped(p)
             /\ ChatExists(p.chatId))
          => /\ returned' = Returned(p, Ok(ChatDoc(p.chatId)'))
             /\ Range(chatDB'[p.chatId].participants)
                   = Range(chatDB[p.chatId].participants) \cup {p.userId}
             /\ p.userId \in Range(chatDB[p.chatId].participants) => chatDB' = chatDB]_vars

C8_Witness ==
    /\ returned.op = "addParticipantToChat"
    /\ returned.userId = "A"
    /\ ~IsError(returned.result)
    /\ returned.result.val.participants = <<"A", "B">>
    /\ chatDB[returned.chatId].participants = <<"A", "B">>

ParticipantsExist ==
    \A c \in 1..Len(chatDB) : Range(chatDB[c].participants) \subseteq UserDB

\* C9: every participant entry of every stored chat is a stored user, and
\* the lookup of addParticipantToChat for a user that does not exist returns
\* 'User not found' and leaves the Chat collection unchanged, whether or not
\* the chat id names a stored chat.
C9_ParticipantsAreUsers ==
    [][/\ ParticipantsExist'
       /\ \A p \in calls :
             (p.op = "addParticipantToChat" /\ Stepped(p) /\ p.userId \notin UserDB)
             => /\ returned' = Returned(p, Err("User not found"))
                /\ chatDB' = chatDB]_vars

C9_Witness ==
    /\ returned.op = "addParticipantToChat"
    /\ returned.userId = "Z"
    /\ ChatExists(returned.chatId)
    /\ returned.result = Err("User not found")
    /\ chatDB[returned.chatId].participants = <<"A", "B">>

\* C10: addMessageToChat and getChat on a chat id that names no stored chat
\* return 'Chat not found', the update of addParticipantToChat on such an id
\* returns an error, and none of them changes the Chat or the Message
\* collection.
C10_MissingChatChangesNothing ==
    [][/\ (returned' # returned /\ returned'.op \in {"addMessageToChat", "getChat"}
            /\ ~ChatExists(returned'.chatId))
          => /\ returned'.result = Err("Chat not found")
             /\ chatDB' = chatDB /\ messageDB' = messageDB
       /\ \A p \in calls :
             (p.op = "addParticipantToChat" /\ p.pc = "update" /\ Stepped(p)
                /\ ~ChatExists(p.chatId))
             => /\ returned' = Returned(p, Err("Failed to add participant to chat"))
                /\ chatDB' = chatDB /\ messageDB' = messageDB]_vars

C10_Witness ==
    /\ returned.op = "addMessageToChat"
    /\ returned.result = Err("Chat not found")
    /\ Len(chatDB) >= 1
    /\ ~ChatExists(returned.chatId)

(***************************************************************************)
(* Properties of the service under every outcome of its storage calls.     *)
(***************************************************************************)
Tagged(res) ==
    \/ res.error # "" /\ res.val = NoVal
    \/ res.error = "" /\ res.val.kind \in {"chat", "message", "chats"}

\* C11: every call of saveChat, createMessage, addMessageToChat, getChat and
\* addParticipantToChat that ends, ends by returning a success value or a
\* tagged error value, also when a storage call of it has raised: no
\* exception leaves the service.
C11_ServiceNeverThrows ==
    returned.op # "idle" => returned.pc = "done" /\ Tagged(returned.result)

C11_Witness ==
    /\ returned.op = "saveChat"
    /\ returned.faulted
    /\ returned.messageIds # <<>>
    /\ returned.result = Err("Failed to save chat")

Matches(ps, c) == Range(ps) \subseteq Range(chatDB[c].participants)

Listed(list, c) == \E k \in DOMAIN list : list[k].id = c

C13_SavedChatHoldsItsMessages ==
    [][\A p \in calls :
        /\ (p.op = "saveChat" /\ p.pc = "createMsg" /\ Stepped(p) /\ returned'.op = "idle")
           => /\ messageDB' = Append(messageDB, p.messages[p.i])
              /\ \E q \in calls' : /\ q.messageIds = Append(p.messageIds, Len(messageDB) + 1)
                                   /\ q.messages = p.messages
                                   /\ q.i = p.i + 1
        /\ (p.op = "saveChat" /\ Stepped(p) /\ ~HasMissingUser(p.participants)
             /\ returned'.op = "saveChat" /\ ~returned'.faulted)
          => LET chat == returned'.result.val
             IN /\ returned'.result.error = ""
                /\ chat.participants = p.participants
                /\ Len(chat.messages) = Len(p.messages)
                /\ \A k \in DOMAIN chat.messages :
                      /\ messageDB'[chat.messages[k]] = p.messages[k]
                      /\ \A j \in 1..(k - 1) : chat.messages[j] < chat.messages[k]
                /\ chat.id = Len(chatDB) + 1
                /\ chatDB' = Append(chatDB, [participants |-> chat.participants,
                                             messages |-> chat.messages])]_vars

C13_Witness ==
    /\ returned.op = "saveChat"
    /\ returned.participants = <<"A", "B">>
    /\ Len(returned.messages) = 2
    /\ returned.result.error = ""
    /\ Len(returned.result.val.messages) = 2
    /\ Range(returned.result.val.participants) = {"A", "B"}

(***************************************************************************)
(* Properties of the HTTP interface.                                       *)
(***************************************************************************)
AnswerTo(p) == {o \in ops' : o \notin ops /\ o.req = p.req}

\* C14: addMessageToChatRoute answers 200 only with an enriched chat and
\* then publishes that chat; when createMessage, addMessageToChat or
\* populateDocument fails it goes on to no answer but 500, and with a 500 it
\* publishes nothing; no event it publishes carries an error as its chat.
C14_AddMessageAnswers ==
    [][\A p \in calls :
          (p.route = "addMessage" /\ Stepped(p))
          => /\ \A o \in AnswerTo(p) :
                   /\ o.status \in {200, 500}
                   /\ o.status = 200 => /\ o.body.kind = "chat"
                                        /\ emitted' = NewMessageEmits(p.chatId, o.body)
                   /\ o.status = 500 => emitted' = <<>>
             /\ \A k \in DOMAIN emitted' : emitted'[k].chat.kind = "chat"
             /\ \A q \in calls' :
                   (q \notin calls /\ q.req = p.req /\ q.enriched # <<>>)
                   => q.enriched[1].kind = "chat"]_vars

EmitsTo(room) == {k \in DOMAIN emitted' : emitted'[k].room = room}

\* C2: when createChatRoute answers 200, it publishes the 'created' event
\* carrying the new chat exactly once to the personal topic of every
\* participant and to no other topic; the connection of a participant, joined
\* to its personal topic only, receives it, and handling it puts the chat in
\* the hook's chats list.
C2_CreatedOncePerParticipant ==
    [][/\ \A p \in calls :
             (p.route = "createChat" /\ p.op = "populateDocument" /\ Stepped(p))
             => /\ \A u \in Range(p.participants) : Cardinality(EmitsTo(UserTopic(u))) = 1
                /\ \A k \in DOMAIN emitted' :
                      /\ emitted'[k].type = "created"
                      /\ emitted'[k].chat = PopulateDocument(p.chatId).val
                      /\ emitted'[k].room \in {UserTopic(u) : u \in Range(p.participants)}
                /\ User \in Range(p.participants)
                      => inbox' = Append(inbox, [type |-> "created",
                                                 chat |-> PopulateDocument(p.chatId).val])
       /\ (inbox # <<>> /\ inbox' = Tail(inbox) /\ hook.mounted
             /\ Head(inbox).type = "created" /\ User \in Range(Head(inbox).chat.participants))
          => HasChat(hook'.chats, Head(inbox).chat.id)]_vars

\* C3: the newMessage event that addMessageToChatRoute publishes for chat c
\* reaches the connection exactly when the connection is joined to topic c at
\* that step: it is never delivered to a connection that has left c or is
\* only on its personal topic, and joining a topic delivers nothing.
C3_NewMessageToJoinedOnly ==
    [][/\ \A p \in calls :
             (p.route = "addMessage" /\ p.pc = "respond" /\ Stepped(p))
             => /\ emitted' = NewMessageEmits(p.chatId, p.enriched[1])
                /\ inbox' = IF ChatTopic(p.chatId) \in rooms
                            THEN Append(inbox, [type |-> "newMessage", chat |-> p.enriched[1]])
                            ELSE inbox
       /\ rooms' # rooms => inbox' = inbox]_vars

C3_Witness ==
    /\ emitted # <<>>
    /\ emitted[1].type = "newMessage"
    /\ emitted[1].room = ChatTopic(1)
    /\ User \in Range(chatDB[1].participants)
    /\ rooms = PersonalRooms
    /\ ~hook.mounted
    /\ inbox = <<>>

\* C5: once the hook is unmounted and none of its requests or socket
\* messages is in flight, its connection is joined to no chat topic.
C5_NoTopicAfterTeardown ==
    (~hook.mounted /\ ops = {} /\ outbox = <<>>) => rooms \subseteq PersonalRooms

\* C6: handling a chatUpdate event whose type is neither 'created' nor
\* 'newMessage' throws and leaves chats and selectedChat as they were.
C6_UnknownTypeThrows ==
    [][(inbox # <<>> /\ inbox' = Tail(inbox) /\ hook.mounted
          /\ Head(inbox).type \notin {"created", "newMessage"})
       => /\ handled' = "threw"
          /\ hook'.chats = hook.chats
          /\ hook'.selectedChat = hook.selectedChat]_vars

C6_Witness ==
    /\ handled = "threw"
    /\ hook.mounted
    /\ hook.chats # <<>>
    /\ hook.selectedChat # NoVal

\* C16: a newMessage event of chat c reaches the connection only if the
\* connection's user is a participant of c.
C16_OnlyParticipantsReceive ==
    [][\A p \in calls :
          (p.route = "addMessage" /\ p.pc = "respond" /\ Stepped(p) /\ inbox' # inbox)
          => User \in Range(chatDB[p.chatId].participants)]_vars

\* C17: the server's handling of joinChat(t) adds t to the connection's rooms
\* and changes nothing when the connection is already in t; its handling of
\* leaveChat changes nothing when the topic is undefined or the connection is
\* not in it, and removes only that topic otherwise.
C17_MembershipGuarded ==
    [][(outbox # <<>> /\ outbox' = Tail(outbox))
       => LET t == ChatTopic(Head(outbox).chatId)
          IN /\ Head(outbox).event = "joinChat"
                => /\ rooms' = rooms \cup {t}
                   /\ t \in rooms => rooms' = rooms
             /\ Head(outbox).event = "leaveChat"
                => /\ (Head(outbox).chatId = 0 \/ t \notin rooms) => rooms' = rooms
                   /\ rooms' = IF Head(outbox).chatId = 0 THEN rooms ELSE rooms \ {t}
             /\ inbox' = inbox]_vars

C17_Witness ==
    /\ outbox = <<[event |-> "leaveChat", chatId |-> 0]>>
    /\ ChatTopic(1) \in rooms
    /\ hook.effect = 1

Handles(type) ==
    /\ inbox # <<>> /\ inbox' = Tail(inbox)
    /\ hook.mounted
    /\ Head(inbox).type = type
    /\ Head(inbox).chat.kind = "chat"

\* C18: at every change of the selected chat from a chat X to another chat Y
\* the hook emits joinChat(Y) once, and by then it has emitted leaveChat(X):
\* that message is on its way to the server, or the server has handled it
\* and the connection is out of X's room.
C18_LeaveBeforeJoin ==
    [][(hook.mounted /\ hook'.mounted /\ SelectedId # 0 /\ SelectedId' \notin {0, SelectedId})
       => /\ outbox' = Append(outbox, [event |-> "joinChat", chatId |-> SelectedId'])
          /\ \/ [event |-> "leaveChat", chatId |-> SelectedId] \in Range(outbox)
             \/ ChatTopic(SelectedId) \notin rooms]_vars

\* C19: handling a 'created' event appends its chat to chats when the chat's
\* participants include the hook's user and chats holds no chat of that id,
\* and leaves chats unchanged otherwise; handling the same event once more
\* changes nothing; selectedChat is never changed.
C19_CreatedMergesOnce ==
    [][Handles("created")
       => LET chat == Head(inbox).chat
          IN /\ hook'.selectedChat = hook.selectedChat
             /\ hook'.chats = IF User \in Range(chat.participants) /\ ~HasChat(hook.chats, chat.id)
                              THEN Append(hook.chats, chat)
                              ELSE hook.chats
             /\ HandleChatUpdate(hook', Head(inbox)).state = hook']_vars

C19_Witness ==
    /\ handled = "created"
    /\ Len(hook.chats) = 1
    /\ hook.selectedChat # NoVal
    /\ hook.selectedChat.id = hook.chats[1].id
    /\ spent = 1

SameEntriesBut(chats, now, chat) ==
    /\ DOMAIN now = DOMAIN chats
    /\ \A k \in DOMAIN chats : now[k] = IF chats[k].id = chat.id THEN chat ELSE chats[k]

\* C20: handling a 'newMessage' event replaces the entries of chats that
\* have the id of the event's chat; it replaces selectedChat when that chat
\* is the currently selected one; and an event for a chat that chats does
\* not hold changes neither chats nor selectedChat.
C20_UnknownChatDropped ==
    [][Handles("newMessage")
       => LET chat == Head(inbox).chat
          IN /\ SameEntriesBut(hook.chats, hook'.chats, chat)
             /\ SelectedId = chat.id => hook'.selectedChat = chat
             /\ ~HasChat(hook.chats, chat.id)
                   => /\ hook'.chats = hook.chats
                      /\ hook'.selectedChat = hook.selectedChat]_vars

(***************************************************************************)
(* The message typed into the hook, as the characters of newMessage, and   *)
(* String.prototype.trim on it.                                            *)
(***************************************************************************)
Whitespace == {" ", "\t"}

TypedTexts == {<<>>, <<" ">>, <<"\t", " ">>, <<"h", "i">>, <<" ", "h", " ", "i", "\t">>}

RECURSIVE TrimStart(_)
TrimStart(text) == IF text # <<>> /\ Head(text) \in Whitespace THEN TrimStart(Tail(text))
                   ELSE text

RECURSIVE TrimEnd(_)
TrimEnd(text) == IF text # <<>> /\ text[Len(text)] \in Whitespace
                 THEN TrimEnd(SubSeq(text, 1, Len(text) - 1))
                 ELSE text

Untrimmed(text) == text

Trim(text) == TrimEnd(TrimStart(text))

RECURSIVE StringOf(_)
StringOf(text) == IF text = <<>> THEN "" ELSE Head(text) \o StringOf(Tail(text))

(***************************************************************************)
(* handleSendMessage, from the text typed: the guard, then the request.    *)
(***************************************************************************)
HandleSendMessageTyped(text) ==
    IF StringOf(Trim(text)) = "" \/ hook.selectedChat = NoVal \/ SelectedId = 0
    THEN /\ hook.mounted /\ Input
         /\ UNCHANGED <<calls, ops, hook, outbox>>
         /\ Quiet
    ELSE HandleSendMessage(StringOf(Trim(text)))

(***************************************************************************)
(* The hook's user typing and sending, in a selected chat or in none.      *)
(***************************************************************************)
SendNext ==
    \/ Mount
    \/ \E p \in calls : GetChatsByParticipants(p)
    \/ \E o \in ops : GetChatsByUserResponse(o)
    \/ \E text \in TypedTexts : HandleSendMessageTyped(text)
    \/ \E p \in calls : CreateMessage(p)
    \/ \E p \in calls : AddMessageToChat(p)
    \/ \E p \in calls : Populate(p)
    \/ \E p \in calls : AddMessageToChatRespond(p)
    \/ \E o \in ops : SendMessageResponse(o)
    \/ ChatUpdate

SendSpec == Init /\ [][SendNext]_vars

(***************************************************************************)
(* C21: sending is a no-op (no request, no change of state) when the text  *)
(* typed is empty or all whitespace or when no chat is selected; otherwise *)
(* it submits exactly one message, the trimmed text from the hook's user,  *)
(* to the selected chat.  Neither the send nor its response changes chats  *)
(* or selectedChat; selectedChat changes only when a newMessage event is   *)
(* handled.                                                                *)
(***************************************************************************)
IsBlank(text) == \A k \in DOMAIN text : text[k] \in Whitespace

Submitted == calls' \ calls

C21_SendMessage ==
    [][/\ \A text \in TypedTexts :
             HandleSendMessageTyped(text) =>
                /\ hook' = hook
                /\ outbox' = outbox /\ inbox' = inbox /\ rooms' = rooms
                /\ chatDB' = chatDB /\ messageDB' = messageDB
                /\ IF IsBlank(text) \/ hook.selectedChat = NoVal
                   THEN calls' = calls /\ ops' = ops
                   ELSE /\ calls \subseteq calls'
                        /\ Cardinality(Submitted) = 1
                        /\ \A q \in Submitted :
                              /\ q.route = "addMessage" /\ q.chatId = hook.selectedChat.id
                              /\ q.messages = <<[msg |-> StringOf(Trim(text)), msgFrom |-> User]>>
                              /\ ops' = ops \cup {Pending(q.req)}
       /\ (\E o \in ops : SendMessageResponse(o)) => hook' = hook
       /\ hook'.selectedChat # hook.selectedChat => Handles("newMessage")]_vars

C21_Witness ==
    /\ hook.mounted /\ hook.selectedChat # NoVal
    /\ spent = 2 /\ calls = {} /\ ops = {}
    /\ Len(messageDB) = 1 /\ messageDB[1].msg = "h i"
    /\ Len(hook.selectedChat.messages) = 1

(***************************************************************************)
(* C22: a chatUpdate event is published only after the mutation it reports *)
(* is persisted and its result enriched: the chat of a 'created' event is  *)
(* an enriched chat that storage holds, and the chat of a 'newMessage'     *)
(* event is an enriched chat that contains the message whose addition      *)
(* triggered the event, which storage holds in that chat.                  *)
(***************************************************************************)
HoldsMessage(chat, k) == \E j \in DOMAIN chat.messages : chat.messages[j].id = k

C22_PublishedAfterPersisted ==
    [][\A p \in calls :
          Stepped(p) =>
             \A k \in DOMAIN emitted' :
                LET e == emitted'[k]
                IN /\ e.chat.kind = "chat"
                   /\ e.chat.id \in 1..Len(chatDB)
                   /\ e.type = "created"
                      => e.chat.participants = chatDB[e.chat.id].participants
                   /\ e.type = "newMessage"
                      => /\ p.messageId \in Range(chatDB[e.chat.id].messages)
                         /\ HoldsMessage(e.chat, p.messageId)]_vars

(***************************************************************************)
(* A chat that stays selected and joined while its two users add messages  *)
(* to it, the other user over HTTP and the hook's user through the hook.   *)
(***************************************************************************)
TalkNext ==
    \/ PostAddMessage
    \/ \E t \in SentTexts : HandleSendMessage(t)
    \/ \E p \in calls : CreateMessage(p)
    \/ \E p \in calls : AddMessageToChat(p)
    \/ \E p \in calls : Populate(p)
    \/ \E p \in calls : AddMessageToChatRespond(p)
    \/ \E o \in ops : SendMessageResponse(o)
    \/ ChatUpdate

TalkSpec == ChatSelected /\ [][TalkNext]_vars

(***************************************************************************)
(* C23: addMessage requests on the same chat are not serialized.  The push *)
(* of a request's message and the publication of its event are never held  *)
(* back by another request in flight, so that messages are appended in     *)
(* either order and events are published in an order that may differ from  *)
(* the order of the messages in storage.                                   *)
(***************************************************************************)
C23_NotSerialized ==
    \A p \in calls :
       /\ (p.route = "addMessage" /\ p.pc = "update") => ENABLED AddMessageToChat(p)
       /\ (p.route = "addMessage" /\ p.pc = "populate") => ENABLED Populate(p)
       /\ (p.route = "addMessage" /\ p.pc = "respond") => ENABLED AddMessageToChatRespond(p)

C23_Witness ==
    /\ Len(messageDB) = 2 /\ chatDB[1].messages = <<2, 1>>
    /\ Len(inbox) = 2
    /\ inbox[1].type = "newMessage" /\ HoldsMessage(inbox[1].chat, 1)
    /\ inbox[2].type = "newMessage" /\ ~HoldsMessage(inbox[2].chat, 1)

(***************************************************************************)
(* C24: while a client keeps a chat selected and joined and addMessage     *)
(* requests on it succeed, then once every request has completed and every *)
(* event has been handled, selectedChat holds exactly the messages that    *)
(* storage holds for the chat, in their order.                             *)
(***************************************************************************)
MessageIds(chat) == [k \in DOMAIN chat.messages |-> chat.messages[k].id]

C24_SelectedCatchesUp ==
    (calls = {} /\ ops = {} /\ inbox = <<>> /\ outbox = <<>>)
    => /\ hook.selectedChat # NoVal /\ ChatTopic(hook.selectedChat.id) \in rooms
       /\ MessageIds(hook.selectedChat) = chatDB[hook.selectedChat.id].messages

(***************************************************************************)
(* C25: the hook's list of chats never holds two entries with the same id, *)
(* however the createChat response, the 'created' event sent to the        *)
(* creator's own topic and the fetch of the list are interleaved.          *)
(***************************************************************************)
C25_NoChatListedTwice ==
    \A j, k \in DOMAIN hook.chats : hook.chats[j].id = hook.chats[k].id => j = k

(***************************************************************************)
(* C26: while the hook stays mounted its view never regresses: a chat that *)
(* is in chats is never removed, and the number of messages it shows never *)
(* decreases, even when a fetch of the list returns after events that were *)
(* handled while it was in flight.                                         *)
(***************************************************************************)
C26_ViewNeverRegresses ==
    [][(hook.mounted /\ hook'.mounted)
       => \A j \in DOMAIN hook.chats :
             \E k \in DOMAIN hook'.chats :
                /\ hook'.chats[k].id = hook.chats[j].id
                /\ Len(hook'.chats[k].messages) >= Len(hook.chats[j].messages)]_vars

(***************************************************************************)
(* C27: while the hook is mounted, with no request of it in flight, its    *)
(* effect run and its socket messages handled, the chat topics that the    *)
(* connection is joined to are exactly the topic of selectedChat when a    *)
(* chat is selected, and none when no chat is selected.                    *)
(***************************************************************************)
ChatTopicsJoined == rooms \ PersonalRooms

C27_JoinedIsSelected ==
    (hook.mounted /\ ops = {} /\ outbox = <<>> /\ SelectedId = hook.effect)
    => ChatTopicsJoined = IF SelectedId = 0 THEN {} ELSE {ChatTopic(SelectedId)}

(***************************************************************************)
(* C28: when saveChat returns an error, whatever its cause, no message and *)
(* no chat that the call created remains in storage.                       *)
(***************************************************************************)
C28_FailedSaveLeavesNothing ==
    (returned.op = "saveChat" /\ IsError(returned.result))
    => \A k \in Range(returned.messageIds) : k \notin 1..Len(messageDB)

(***************************************************************************)
(* C29: whenever no request is in flight, every stored message is          *)
(* referenced by exactly one stored chat, once.                            *)
(***************************************************************************)
References(k) ==
    {<<c, j>> \in (1..Len(chatDB)) \X (1..MaxMessages + 1) :
        j \in DOMAIN chatDB[c].messages /\ chatDB[c].messages[j] = k}

C29_EveryMessageInOneChat ==
    calls = {} => \A k \in 1..Len(messageDB) : Cardinality(References(k)) = 1

(***************************************************************************)
(* C30: the participant list of every stored chat names no user twice.     *)
(***************************************************************************)
C30_ParticipantsDistinct ==
    \A c \in 1..Len(chatDB) :
       \A j, k \in DOMAIN chatDB[c].participants :
          chatDB[c].participants[j] = chatDB[c].participants[k] => j = k

(***************************************************************************)
(* useNimGamePage.  In this part hook is the state of the Nim hook: the    *)
(* move it stores and the gameState it is rendered with; outbox holds the  *)
(* socket messages it has emitted.  A number is held in tenths, so that    *)
(* Number(value) of a text with a decimal is told apart from an integer.   *)
(* The text of the input field is held as its characters.                  *)
(***************************************************************************)
Num(n) == n * 10

NaN == [nan |-> TRUE, tenths |-> 0]

Finite(t) == [nan |-> FALSE, tenths |-> t]

DigitChars == <<"0", "1", "2", "3", "4", "5", "6", "7", "8", "9">>

IsDigits(text) == text # <<>> /\ \A k \in DOMAIN text : text[k] \in Range(DigitChars)

DigitValue(d) == (CHOOSE k \in DOMAIN DigitChars : DigitChars[k] = d) - 1

RECURSIVE IntOf(_)
IntOf(text) == IF text = <<>> THEN 0
               ELSE IntOf(SubSeq(text, 1, Len(text) - 1)) * 10 + DigitValue(text[Len(text)])

Unsigned(text) ==
    IF IsDigits(text) THEN Finite(Num(IntOf(text)))
    ELSE IF Len(text) >= 3 /\ text[Len(text) - 1] = "."
            /\ IsDigits(SubSeq(text, 1, Len(text) - 2)) /\ IsDigits(<<text[Len(text)]>>)
         THEN Finite(Num(IntOf(SubSeq(text, 1, Len(text) - 2))) + DigitValue(text[Len(text)]))
         ELSE NaN

NumberOf(value) ==
    LET text == Trim(value)
    IN IF text = <<>> THEN Finite(0)
       ELSE IF Head(text) = "-"
            THEN LET n == Unsigned(Tail(text))
                 IN IF n.nan THEN NaN ELSE Finite(0 - n.tenths)
            ELSE IF Head(text) = "+" THEN Unsigned(Tail(text))
            ELSE Unsigned(text)

InputValues ==
    {<<>>, <<" ">>, <<"a">>, <<"0">>, <<"1">>, <<"2">>, <<"3">>, <<"4">>, <<"1", "2">>,
     <<"2", ".", "5">>, <<"3", ".", "5">>, <<"-", "1">>, <<"+", "3">>, <<" ", "2", " ">>,
     <<"2", "x">>}

ObjectCounts == 0..5

GameID == "nim1"

IsValidInput(num) == num >= Num(1) /\ num <= Num(3)

IsValidInputOnly(num) == IsValidInput(num)

IsValidMove(num) == IsValidInput(num) /\ num <= Num(hook.gameState.remainingObjects)

MoveData(num) == [event |-> "makeMove", gameID |-> GameID, playerID |-> User, numObjects |-> num]

NimQuiet == /\ emitted' = <<>>
            /\ handled' = "none"
            /\ UNCHANGED <<chatDB, messageDB, calls, returned, rooms, inbox, ops>>

HandleMakeMove ==
    /\ Input
    /\ IF ~IsValidMove(hook.move)
       THEN UNCHANGED <<hook, outbox>>
       ELSE /\ outbox' = Append(outbox, MoveData(hook.move))
            /\ hook' = [hook EXCEPT !.move = Num(1)]
    /\ NimQuiet

HandleInputChange(value) ==
    /\ Input
    /\ LET move == NumberOf(value)
       IN IF value = <<>> \/ move.nan \/ ~IsValidMove(move.tenths)
          THEN UNCHANGED hook
          ELSE hook' = [hook EXCEPT !.move = move.tenths]
    /\ UNCHANGED outbox
    /\ NimQuiet

(***************************************************************************)
(* The page renders the hook again with the game state it has received.    *)
(***************************************************************************)
Rerender(n) ==
    /\ n # hook.gameState.remainingObjects
    /\ hook' = [hook EXCEPT !.gameState.remainingObjects = n]
    /\ UNCHANGED <<outbox, spent>>
    /\ NimQuiet

NimInit ==
    /\ chatDB = <<>>
    /\ messageDB = <<>>
    /\ calls = {}
    /\ returned = NoCall
    /\ rooms = PersonalRooms
    /\ outbox = <<>>
    /\ inbox = <<>>
    /\ emitted = <<>>
    /\ handled = "none"
    /\ \E n \in ObjectCounts :
          hook = [move |-> Num(1), gameState |-> [gameID |-> GameID, remainingObjects |-> n]]
    /\ ops = {}
    /\ spent = 0

NimNext ==
    \/ HandleMakeMove
    \/ \E value \in InputValues : HandleInputChange(value)
    \/ \E n \in ObjectCounts : Rerender(n)

NimSpec == NimInit /\ [][NimNext]_vars

(***************************************************************************)
(* C31: in the Nim hook the stored move is always between 1 and 3;         *)
(* handleInputChange changes it only to a number between 1 and 3 that does *)
(* not exceed the remaining objects; every makeMove event emitted carries  *)
(* a number of objects between 1 and 3 that does not exceed the remaining  *)
(* objects of the game state the hook holds at that moment; an invalid     *)
(* move emits nothing and leaves the stored move unchanged.                *)
(***************************************************************************)
OneToThree(num) == Num(1) <= num /\ num <= Num(3)

Remaining == Num(hook.gameState.remainingObjects)

C31_NimMove ==
    [][/\ OneToThree(hook.move) /\ OneToThree(hook'.move)
       /\ (\E value \in InputValues : HandleInputChange(value))
          => /\ outbox' = outbox
             /\ hook'.move # hook.move => hook'.move <= Remaining
       /\ HandleMakeMove
          => IF OneToThree(hook.move) /\ hook.move <= Remaining
             THEN /\ Len(outbox') = Len(outbox) + 1
                  /\ SubSeq(outbox', 1, Len(outbox)) = outbox
                  /\ outbox'[Len(outbox')] = MoveData(hook.move)
             ELSE outbox' = outbox /\ hook' = hook
       /\ \A k \in DOMAIN outbox' :
             k > Len(outbox)
             => /\ outbox'[k].event = "makeMove"
                /\ OneToThree(outbox'[k].numObjects) /\ outbox'[k].numObjects <= Remaining]_vars

C31_Witness ==
    /\ Len(outbox) = 1 /\ outbox[1].numObjects = Num(2) + 5
    /\ hook.move = Num(1)
    /\ spent = 2

====
